---- MODULE Spec2Model ----
(***************************************************************************)
(* Model of app.py: the start-up pass that builds the unified wait-time    *)
(* table data_df from the five ride files, and the Dash callback           *)
(* update_charts that aggregates it per request.                           *)
(*                                                                         *)
(* A cell of a wait-time column is <<>> (NaN) or <<v>> (the number v).     *)
(* A timestamp string of a file is the tuple <<year, month, day, hour>>;   *)
(* pd.to_datetime turns it into a record with those fields.                *)
(***************************************************************************)
EXTENDS Integers, Sequences, FiniteSets, TLC

\* ---------------------------------------------------------------- bounds
\* Largest number of rows in the five files together.
MaxRecs == 3

\* The same, for the runs that serve any number of requests (SpecServe).
MaxRecsServe == 2

\* Indices (in dfs) of the files that hold rows; the other files are empty.
LoadedRides == <<1, 3>>

\* Timestamps a row of a file can carry: three hours of one day, the next
\* day, and the same day and month one year later.
Timestamps ==
    << <<2021, 6, 1, 1>>, <<2021, 6, 1, 8>>, <<2021, 6, 1, 9>>,
       <<2021, 6, 2, 1>>, <<2022, 6, 1, 1>> >>

\* ------------------------------------------------------------- constants
NaN == <<>>

Closed == -999

\* Posted waits a row of a file can carry (SPOSTMIN), NaN when it is empty.
PostedValues == << NaN, <<Closed>>, <<10>>, <<20>> >>

names == <<"_dino", "_everest", "_passage", "_safari", "_navi">>

col == <<"SPOSTMIN_dino", "SPOSTMIN_everest", "SPOSTMIN_passage",
         "SPOSTMIN_safari", "SPOSTMIN_navi">>

name == <<"Dinosaur", "Expedition Everest", "Flight of Passage",
          "Kilimanjaro Safaris", "Navi River">>

NumFiles == Len(names)

\* Hash-table constants of the set type behind list(set(...)).
PySet_MINSIZE == 8

LINEAR_PROBES == 9

PERTURB_SHIFT == 5

\* Date picker range.
min_date_allowed == <<2021, 1, 1>>

max_date_allowed == <<2022, 12, 31>>

VARIABLES
    pc,          \* position of the module-level script / "serving"
    dfs,         \* the five per-ride frames (sequences of rows)
    data_df,     \* the unified table (sequence of rows)
    sorted_df,   \* data_df as it was right after sort_values
    filled_df,   \* data_df as it was right after the backfill loop
    startup_df,  \* data_df as the start-up pass left it (after replace)
    request,     \* arguments of the last update_charts call
    data,        \* the filtered frame of the last update_charts call
    response     \* what the last update_charts call returned or raised

vars == <<pc, dfs, data_df, sorted_df, filled_df, startup_df, request, data, response>>

\* ---------------------------------------------------------------- helpers
Range(s) == {s[i] : i \in 1..Len(s)}

RECURSIVE Flatten(_)
Flatten(ss) == IF ss = <<>> THEN <<>> ELSE Head(ss) \o Flatten(Tail(ss))

Min(S) == CHOOSE x \in S : \A y \in S : x <= y

RECURSIVE SortedInts(_)
SortedInts(S) == IF S = {} THEN <<>> ELSE <<Min(S)>> \o SortedInts(S \ {Min(S)})

RECURSIVE Sum(_)
Sum(s) == IF s = <<>> THEN 0 ELSE Head(s) + Sum(Tail(s))

RECURSIVE GCD(_, _)
GCD(a, b) == IF b = 0 THEN a ELSE GCD(b, a % b)

Abs(x) == IF x < 0 THEN -x ELSE x

\* Restriction of a row to some of its columns.
Project(row, cs) == [c \in cs |-> row[c]]

\* ----------------------------------------------------------- file contents
\* One row of a file: date, datetime, SACTMIN, SPOSTMIN.
FileRow(ts, v) ==
    [date |-> <<ts[1], ts[2], ts[3]>>, datetime |-> ts, SACTMIN |-> NaN, SPOSTMIN |-> v]

NumKinds == Len(LoadedRides) * Len(Timestamps) * Len(PostedValues)

\* The k-th (file, row) combination, k in 1..NumKinds.
KindFile(k) == LoadedRides[((k - 1) \div (Len(Timestamps) * Len(PostedValues))) + 1]

KindRow(k) ==
    FileRow(Timestamps[(((k - 1) \div Len(PostedValues)) % Len(Timestamps)) + 1],
            PostedValues[((k - 1) % Len(PostedValues)) + 1])

RECURSIVE NonDecreasing(_, _)
NonDecreasing(n, lo) ==
    IF n = 0 THEN {<<>>}
    ELSE UNION {{<<k>> \o s : s \in NonDecreasing(n - 1, k)} : k \in lo..NumKinds}

\* The contents of the five files: at most MaxRecs rows in all, any row may
\* repeat.  Rows of one file are listed in one fixed order: the order of the
\* rows of a file does not survive Sort, which takes ties in any order.
Inputs(max) == UNION {NonDecreasing(n, 1) : n \in 0..max}

RECURSIVE FileOf(_, _)
FileOf(ks, f) ==
    IF ks = <<>> THEN <<>>
    ELSE (IF KindFile(Head(ks)) = f THEN <<KindRow(Head(ks))>> ELSE <<>>)
         \o FileOf(Tail(ks), f)

\* pd.read_csv of the five files (lines 15-22).
read_csv(ks) == [f \in 1..NumFiles |-> FileOf(ks, f)]

\* ------------------------------------------------------ the start-up pass
to_datetime(ts) == [year |-> ts[1], month |-> ts[2], day |-> ts[3], hour |-> ts[4]]

DatetimeLeq(a, b) ==
    \/ a.year < b.year
    \/ a.year = b.year /\ a.month < b.month
    \/ a.year = b.year /\ a.month = b.month /\ a.day < b.day
    \/ a.year = b.year /\ a.month = b.month /\ a.day = b.day /\ a.hour <= b.hour

RECURSIVE dropna(_, _)
dropna(rows, subset) ==
    IF rows = <<>> THEN <<>>
    ELSE (IF Head(rows)[subset] = NaN THEN <<>> ELSE <<Head(rows)>>)
         \o dropna(Tail(rows), subset)

\* Body of the loop of lines 26-30 for the frame at index df: drop SACTMIN and
\* date, drop the rows without SPOSTMIN, rename SPOSTMIN, convert datetime.
CleanFrame(frame, df) ==
    LET kept == dropna([i \in 1..Len(frame) |-> Project(frame[i], {"datetime", "SPOSTMIN"})],
                       "SPOSTMIN")
    IN  [i \in 1..Len(kept) |->
            ("datetime" :> to_datetime(kept[i].datetime))
            @@ (("SPOSTMIN" \o names[df]) :> kept[i].SPOSTMIN)]

FrameColumns(df) == {"datetime", "SPOSTMIN" \o names[df]}

NullRow(cs) == [c \in cs |-> NaN]

RECURSIVE SelectRows(_, _, _)
SelectRows(rows, on, key) ==
    IF rows = <<>> THEN <<>>
    ELSE (IF Project(Head(rows), on) = key THEN <<Head(rows)>> ELSE <<>>)
         \o SelectRows(Tail(rows), on, key)

\* merge as a left join: the keys of the right frame alone are lost.
merge_left(left, lcols, right, rcols) ==
    LET on == lcols \cap rcols
        both(l) ==
            LET m == SelectRows(right, on, Project(l, on))
            IN  IF m = <<>> THEN <<l @@ NullRow(rcols \ on)>>
                ELSE [j \in 1..Len(m) |-> l @@ m[j]]
    IN  Flatten([i \in 1..Len(left) |-> both(left[i])])

\* pd.merge(left, right, how = "outer"): joins on the columns the two frames
\* share; a key of one side only gets NaN in the other side's columns, a key
\* repeated on a side is paired with every row of that key on the other side.
merge(left, lcols, right, rcols) ==
    LET on == lcols \cap rcols
        both(l) ==
            LET m == SelectRows(right, on, Project(l, on))
            IN  IF m = <<>> THEN <<l @@ NullRow(rcols \ on)>>
                ELSE [j \in 1..Len(m) |-> l @@ m[j]]
        rightOnly(r) ==
            IF SelectRows(left, on, Project(r, on)) = <<>>
            THEN <<r @@ NullRow(lcols \ on)>> ELSE <<>>
    IN  Flatten([i \in 1..Len(left) |-> both(left[i])])
        \o Flatten([i \in 1..Len(right) |-> rightOnly(right[i])])

RECURSIVE MergedColumns(_)
MergedColumns(n) ==
    IF n = 1 THEN FrameColumns(1) ELSE MergedColumns(n - 1) \cup FrameColumns(n)

\* The priming merge of line 33 and the loop of lines 36-37.
RECURSIVE MergeChain(_, _)
MergeChain(frames, n) ==
    IF n = 1 THEN frames[1]
    ELSE merge(MergeChain(frames, n - 1), MergedColumns(n - 1), frames[n], FrameColumns(n))

\* Lines 40-43.
DeriveRow(row) ==
    row @@ [Year |-> row.datetime.year, Month |-> row.datetime.month,
            Day |-> row.datetime.day, Hour |-> row.datetime.hour]

Ascending(rows) ==
    \A i \in 1..(Len(rows) - 1) : DatetimeLeq(rows[i].datetime, rows[i + 1].datetime)

\* data_df.sort_values("datetime"): the rows in ascending order of datetime;
\* the default sort is not stable, rows of equal datetime come in any order.
sort_values(rows) ==
    {s \in {[i \in 1..Len(rows) |-> rows[p[i]]] : p \in Permutations(1..Len(rows))} :
        Ascending(s)}

\* Groups of the backfill without the Day key.
SameGroup_month(a, b) == a.Year = b.Year /\ a.Month = b.Month

SameGroup(a, b) == a.Year = b.Year /\ a.Month = b.Month /\ a.Day = b.Day

\* A fill that takes the last value of the group instead of the next one.
bfill_last(rows, c) ==
    [i \in 1..Len(rows) |->
        IF rows[i][c] # NaN THEN rows[i]
        ELSE LET later == {j \in (i + 1)..Len(rows) :
                              SameGroup(rows[i], rows[j]) /\ rows[j][c] # NaN}
             IN  IF later = {} THEN rows[i]
                 ELSE [rows[i] EXCEPT ![c] = rows[CHOOSE j \in later : \A k \in later : k <= j][c]]]

\* data_df.groupby(["Year", "Month", "Day"])[c].bfill() written back to c.
bfill(rows, c) ==
    [i \in 1..Len(rows) |->
        IF rows[i][c] # NaN THEN rows[i]
        ELSE LET later == {j \in (i + 1)..Len(rows) :
                              SameGroup(rows[i], rows[j]) /\ rows[j][c] # NaN}
             IN  IF later = {} THEN rows[i]
                 ELSE [rows[i] EXCEPT ![c] = rows[Min(later)][c]]]

\* The loop of lines 56-57 over the first n columns of the list.
RECURSIVE BackfillAll(_, _)
BackfillAll(rows, n) ==
    IF n = 0 THEN rows ELSE bfill(BackfillAll(rows, n - 1), col[n])

IntColumns == {"Year", "Month", "Day", "Hour"}

\* A replace that misses the wait-time columns.
ReplaceCell_missed(c, v) ==
    IF c \in IntColumns THEN (IF v = Closed THEN NaN ELSE v) ELSE v

\* One cell under data_df.replace(-999, np.nan).
ReplaceCell(c, v) ==
    IF c \in IntColumns THEN (IF v = Closed THEN NaN ELSE v)
    ELSE IF c = "datetime" THEN v
    ELSE IF v = <<Closed>> THEN NaN ELSE v

replace(rows) ==
    [i \in 1..Len(rows) |-> [c \in DOMAIN rows[i] |-> ReplaceCell(c, rows[i][c])]]

\* ------------------------------------------------------------ list(set(..))
\* The hash table of a set of small non-negative integers (hash(k) = k): a
\* sequence of slots, slot i at index i + 1, each <<>> (unused) or <<k>>.
EmptyTable(size) == [i \in 1..size |-> <<>>]

\* The slot where key k goes: the probe sequence of set_add_entry, which stops
\* at the first unused slot or at the slot that already holds k.
RECURSIVE ProbeFrom(_, _, _, _)
ProbeFrom(table, k, i, perturb) ==
    LET mask == Len(table) - 1
        probes == IF i + LINEAR_PROBES <= mask THEN LINEAR_PROBES ELSE 0
        hits == {j \in i..(i + probes) : table[j + 1] = <<>> \/ table[j + 1] = <<k>>}
        p == perturb \div (2 ^ PERTURB_SHIFT)
    IN  IF hits # {} THEN Min(hits)
        ELSE ProbeFrom(table, k, (i * 5 + 1 + p) % (mask + 1), p)

Slot(table, k) == ProbeFrom(table, k, k % Len(table), k)

Used(table) == Cardinality({i \in 1..Len(table) : table[i] # <<>>})

RECURSIVE GrownSize(_, _)
GrownSize(size, minused) == IF size <= minused THEN GrownSize(size * 2, minused) ELSE size

\* set_table_resize: a larger table, the keys re-inserted in slot order.
RECURSIVE Reinsert(_, _, _)
Reinsert(old, i, new) ==
    IF i > Len(old) THEN new
    ELSE IF old[i] = <<>> THEN Reinsert(old, i + 1, new)
    ELSE Reinsert(old, i + 1, [new EXCEPT ![Slot(new, old[i][1]) + 1] = old[i]])

set_add(table, k) ==
    LET j == Slot(table, k)
        t == [table EXCEPT ![j + 1] = <<k>>]
    IN  IF table[j + 1] = <<k>> THEN table
        ELSE IF Used(t) * 5 < (Len(t) - 1) * 3 THEN t
        ELSE Reinsert(t, 1, EmptyTable(GrownSize(PySet_MINSIZE, Used(t) * 4)))

RECURSIVE set_of(_, _)
set_of(xs, n) == IF n = 0 THEN EmptyTable(PySet_MINSIZE) ELSE set_add(set_of(xs, n - 1), xs[n])

\* list(set(xs)): the keys in slot order.
list_set(xs) ==
    LET t == set_of(xs, Len(xs))
    IN  Flatten([i \in 1..Len(t) |-> t[i]])

\* -------------------------------------------------------------- the callback
\* pd.to_datetime of the date picker's value.
to_date(d) == [year |-> d[1], month |-> d[2], day |-> d[3]]

\* A filter that also compares the year.
RECURSIVE loc_year(_, _)
loc_year(rows, date) ==
    IF rows = <<>> THEN <<>>
    ELSE (IF /\ Head(rows).Day = date.day
             /\ Head(rows).Month = date.month
             /\ Head(rows).Year = date.year
          THEN <<Head(rows)>> ELSE <<>>)
         \o loc_year(Tail(rows), date)

\* A filter that matches nothing for a date outside the date picker's range.
RECURSIVE loc_in_range(_, _)
loc_in_range(rows, date) ==
    IF rows = <<>> THEN <<>>
    ELSE (IF /\ Head(rows).Day = date.day
             /\ Head(rows).Month = date.month
             /\ date.year >= min_date_allowed[1]
             /\ date.year <= max_date_allowed[1]
          THEN <<Head(rows)>> ELSE <<>>)
         \o loc_in_range(Tail(rows), date)

\* data_df.loc[(data_df["Day"] == date.day) & (data_df["Month"] == date.month)]
RECURSIVE loc(_, _)
loc(rows, date) ==
    IF rows = <<>> THEN <<>>
    ELSE (IF Head(rows).Day = date.day /\ Head(rows).Month = date.month
          THEN <<Head(rows)>> ELSE <<>>)
         \o loc(Tail(rows), date)

Column(rows, c) == [i \in 1..Len(rows) |-> rows[i][c]]

\* Series.mean(): the mean of the cells that are not NaN, as a fraction in
\* lowest terms <<numerator, denominator>>; NaN when every cell is NaN.
mean(cells) ==
    LET vals == Flatten(cells)
        s == Sum(vals)
        g == GCD(Abs(s), Len(vals))
    IN  IF vals = <<>> THEN NaN ELSE <<s \div g, Len(vals) \div g>>

\* rows.groupby([by])[c].mean(): one mean per value of by, in ascending order
\* of by.
groupby_mean(rows, by, c) ==
    LET keys == SortedInts(Range(Column(rows, by)))
    IN  [k \in 1..Len(keys) |-> mean(Column(SelectRows(rows, {by}, [b \in {by} |-> keys[k]]), c))]

\* x of the line trace: list(set(data.apply(list)["Hour"])).
HourLabels(rows) == list_set(Column(rows, "Hour"))

\* x of the bar trace: list(set(data.apply(list)["Year"])), then .sort().
YearLabels(rows) == SortedInts(Range(Column(rows, "Year")))

TableColumns == MergedColumns(NumFiles) \cup IntColumns

NoName == ""

LineTrace(rows, c, n) == [x |-> HourLabels(rows), y |-> groupby_mean(rows, "Hour", c), name |-> n]

BarTrace(rows, c, n) == [x |-> YearLabels(rows), y |-> groupby_mean(rows, "Year", c), name |-> n]

Index(s, e) == CHOOSE i \in 1..Len(s) : s[i] = e

\* A lookup that accepts any name.
HasColumn_any(ride) == TRUE

\* What data.groupby([...])[ride] does with the ride it is given: the column
\* itself, or KeyError when the frame has no such column.
HasColumn(ride) == ride \in TableColumns

\* What update_charts(ride, date) returns, or the exception it raises.
\* data.apply(list) of a frame without rows raises ValueError (the list of an
\* empty column cannot be laid over the frame's columns).
update_charts(table, ride, date) ==
    LET rows == loc(table, to_date(date))
    IN  IF ride = "All"
        THEN IF rows = <<>> THEN [status |-> "ValueError"]
             ELSE [status |-> "ok",
                   line |-> [r \in 1..Len(col) |-> LineTrace(rows, col[r], name[r])],
                   bar |-> [r \in 1..Len(col) |-> BarTrace(rows, col[r], name[r])]]
        ELSE IF ~HasColumn(ride) THEN [status |-> "KeyError"]
        ELSE IF rows = <<>> THEN [status |-> "ValueError"]
        ELSE IF ride \notin Range(col) THEN [status |-> "ValueError"]
        ELSE [status |-> "ok",
              line |-> <<LineTrace(rows, ride, name[Index(col, ride)])>>,
              bar |-> <<BarTrace(rows, ride, NoName)>>]

\* A callback that assigns the filtered frame to the table.
TableAfterCall_filtered(table, rows) == rows

\* data_df after a call of update_charts that filtered it to rows: the
\* callback binds the filtered frame to a local name and assigns nothing else.
TableAfterCall(table, rows) == table

\* Ride selectors of the requests: the six values of the dropdown, and two
\* values it does not offer: one that is no column of the table and one that
\* is a column but no ride.
RideSelectors == {"All"} \cup Range(col) \cup {"SPOSTMIN_tron", "Year"}

\* Dates of the requests: two that differ in the year only, and two outside the
\* date picker's range.
Dates == {<<2021, 6, 1>>, <<2022, 6, 1>>, <<2020, 6, 1>>, <<2023, 6, 2>>}

NoRequest == [ride |-> "", date |-> <<>>]

NoResponse == [status |-> "none"]

Start(max) ==
    /\ pc = "clean"
    /\ \E ks \in Inputs(max) : dfs = read_csv(ks)
    /\ data_df = <<>>
    /\ sorted_df = <<>>
    /\ filled_df = <<>>
    /\ startup_df = <<>>
    /\ request = NoRequest
    /\ data = <<>>
    /\ response = NoResponse

Init == Start(MaxRecs)

InitServe == Start(MaxRecsServe)

Clean ==
    /\ pc = "clean"
    /\ dfs' = [df \in 1..NumFiles |-> CleanFrame(dfs[df], df)]
    /\ pc' = "merge"
    /\ UNCHANGED <<data_df, sorted_df, filled_df, startup_df, request, data, response>>

Merge ==
    /\ pc = "merge"
    /\ data_df' = MergeChain(dfs, NumFiles)
    /\ pc' = "derive"
    /\ UNCHANGED <<dfs, sorted_df, filled_df, startup_df, request, data, response>>

Derive ==
    /\ pc = "derive"
    /\ data_df' = [i \in 1..Len(data_df) |-> DeriveRow(data_df[i])]
    /\ pc' = "sort"
    /\ UNCHANGED <<dfs, sorted_df, filled_df, startup_df, request, data, response>>

Sort ==
    /\ pc = "sort"
    /\ data_df' \in sort_values(data_df)
    /\ sorted_df' = data_df'
    /\ pc' = "backfill"
    /\ UNCHANGED <<dfs, filled_df, startup_df, request, data, response>>

Backfill ==
    /\ pc = "backfill"
    /\ data_df' = BackfillAll(data_df, Len(col))
    /\ filled_df' = data_df'
    /\ pc' = "replace"
    /\ UNCHANGED <<dfs, sorted_df, startup_df, request, data, response>>

Replace ==
    /\ pc = "replace"
    /\ data_df' = replace(data_df)
    /\ startup_df' = data_df'
    /\ pc' = "serving"
    /\ UNCHANGED <<dfs, sorted_df, filled_df, request, data, response>>

\* One call of the callback, with any ride selector and date.
UpdateCharts ==
    /\ pc = "serving"
    /\ \E ride \in RideSelectors, date \in Dates :
        /\ request' = [ride |-> ride, date |-> date]
        /\ data' = loc(data_df, to_date(date))
        /\ response' = update_charts(data_df, ride, date)
        /\ data_df' = TableAfterCall(data_df, data')
    /\ UNCHANGED <<pc, dfs, sorted_df, filled_df, startup_df>>

\* The first call after start-up (the page load).
FirstCall == response = NoResponse /\ UpdateCharts

Startup == Clean \/ Merge \/ Derive \/ Sort \/ Backfill \/ Replace

\* The start-up pass and the first request.
Next == Startup \/ FirstCall

Spec == Init /\ [][Next]_vars

\* The start-up pass and any number of requests.
NextServe == Startup \/ UpdateCharts

SpecServe == InitServe /\ [][NextServe]_vars

\* ================================================================ properties
Merged == pc \notin {"clean", "merge"}

Filled == pc \in {"replace", "serving"}

Served == response # NoResponse

Count(rows, ts) == Cardinality({i \in 1..Len(rows) : rows[i].datetime = ts})

\* Timestamps of the cleaned records of the five rides.
CleanedTimestamps ==
    UNION {{dfs[f][i].datetime : i \in 1..Len(dfs[f])} : f \in 1..NumFiles}

RECURSIVE Product(_, _)
Product(F, n) == IF n = 0 THEN 1 ELSE F[n] * Product(F, n - 1)

\* Rows the chained outer merge makes for ts: one for every combination of the
\* records of ts, one record from each ride that has any.
Combinations(ts) ==
    Product([f \in 1..NumFiles |-> IF Count(dfs[f], ts) = 0 THEN 1 ELSE Count(dfs[f], ts)],
            NumFiles)

SameDay(a, b) == a.year = b.year /\ a.month = b.month /\ a.day = b.day

\* Rows after row i of the sorted table, on the same calendar day, where
\* column c held a value before the gap repair.
LaterValues(i, c) ==
    {j \in (i + 1)..Len(sorted_df) :
        SameDay(sorted_df[i].datetime, sorted_df[j].datetime) /\ sorted_df[j][c] # NaN}

\* The same, where the value is a wait and not the closed-ride sentinel.
LaterWaits(i, c) == {j \in LaterValues(i, c) : sorted_df[j][c] # <<Closed>>}

Cells == {<<i, c>> : i \in 1..Len(sorted_df), c \in Range(col)}

\* No ride has two cleaned records with the same timestamp.
NoRepeats == \A f \in 1..NumFiles, ts \in CleanedTimestamps : Count(dfs[f], ts) <= 1

\* ------------------------------------------------------------------- C1
\* C1 as stated: after the merge the unified table has exactly one row for
\* every timestamp of the rides' cleaned records and no timestamp twice, for
\* every input, also when a ride repeats a timestamp.
C1_AsStated ==
    Merged =>
        /\ \A ts \in CleanedTimestamps : Count(data_df, ts) = 1
        /\ \A i \in 1..Len(data_df) : data_df[i].datetime \in CleanedTimestamps

\* C1 amended: the unified table has a row for every timestamp of the rides'
\* cleaned records and no row with another timestamp; a timestamp that no
\* ride repeats is in exactly one row, and a repeated one is in as many rows
\* as there are combinations of its records, one from each ride that has it.
C1_JoinCompleteness ==
    Merged =>
        /\ \A ts \in CleanedTimestamps : Count(data_df, ts) = Combinations(ts)
        /\ \A ts \in CleanedTimestamps :
            (\A f \in 1..NumFiles : Count(dfs[f], ts) <= 1) => Count(data_df, ts) = 1
        /\ \A i \in 1..Len(data_df) : data_df[i].datetime \in CleanedTimestamps

\* A ride repeats a timestamp another ride has once, and a second timestamp
\* comes from one ride only.
C1_Witness ==
    /\ pc = "serving"
    /\ \E ts \in CleanedTimestamps : Count(data_df, ts) = 2 /\ Combinations(ts) = 2
    /\ \E ts \in CleanedTimestamps :
        /\ Count(data_df, ts) = 1
        /\ Cardinality({f \in 1..NumFiles : Count(dfs[f], ts) > 0}) = 1

\* ------------------------------------------------------------------- C2
\* C2: right after the backfill of the table sorted by timestamp, a cell that
\* held a value is unchanged; a cell that was NaN holds the value of the
\* nearest later cell of the same ride and calendar day that held a value, and
\* is still NaN when that day has no such later cell; nothing else changed.
C2_BackwardFill ==
    Filled =>
        /\ Ascending(sorted_df)
        /\ Len(filled_df) = Len(sorted_df)
        /\ \A i \in 1..Len(sorted_df) :
            /\ DOMAIN filled_df[i] = DOMAIN sorted_df[i]
            /\ \A c \in DOMAIN sorted_df[i] \ Range(col) : filled_df[i][c] = sorted_df[i][c]
        /\ \A cell \in Cells :
            LET i == cell[1]
                c == cell[2]
                later == LaterValues(i, c)
            IN  IF sorted_df[i][c] # NaN THEN filled_df[i][c] = sorted_df[i][c]
                ELSE IF later = {} THEN filled_df[i][c] = NaN
                ELSE \E j \in later :
                        /\ \A k \in later : j <= k
                        /\ filled_df[i][c] = sorted_df[j][c]

\* One NaN cell was filled from later that day, and another stayed NaN although
\* the same ride has a value on a later day and another ride has one that day.
C2_Witness ==
    /\ pc = "replace"
    /\ \E cell \in Cells : sorted_df[cell[1]][cell[2]] = NaN /\ filled_df[cell[1]][cell[2]] # NaN
    /\ \E cell \in Cells :
        /\ sorted_df[cell[1]][cell[2]] = NaN
        /\ filled_df[cell[1]][cell[2]] = NaN
        /\ \E j \in (cell[1] + 1)..Len(sorted_df) : sorted_df[j][cell[2]] # NaN
        /\ \E c \in Range(col) : sorted_df[cell[1]][c] # NaN

\* ------------------------------------------------------------------- C3
\* Waits of column c, the sentinel excluded, that the rows of the filled table
\* on the day and month of date carry.
WaitsOn(date, c) ==
    {filled_df[i][c][1] : i \in {j \in 1..Len(filled_df) :
        /\ filled_df[j].datetime.month = date[2]
        /\ filled_df[j].datetime.day = date[3]
        /\ filled_df[j][c] \notin {NaN, <<Closed>>}}}

MeanWithin(m, V) ==
    m # NaN => /\ V # {}
               /\ \A v \in V : (\A w \in V : v <= w) => v * m[2] <= m[1]
               /\ \A v \in V : (\A w \in V : w <= v) => m[1] <= v * m[2]

TraceColumn(k) == IF request.ride = "All" THEN col[k] ELSE request.ride

C4_AsStated ==
    (pc = "serving" /\ NoRepeats) =>
        \A cell \in Cells :
            LET i == cell[1]
                c == cell[2]
                later == LaterWaits(i, c)
            IN  sorted_df[i][c] = NaN =>
                    IF later = {} THEN data_df[i][c] = NaN
                    ELSE \E j \in later :
                            /\ \A k \in later : j <= k
                            /\ data_df[i][c] = sorted_df[j][c]

\* C4 amended: in the table the aggregation reads, a cell that was NaN before
\* the gap repair holds the value recorded in the nearest later cell of that
\* ride on the same calendar day when that value is a wait; it is NaN when the
\* day has no later recorded value, and also when the nearest one is the
\* closed-ride sentinel -999, whatever waits follow it that day.
C4_FillThenNormalize ==
    pc = "serving" =>
        \A cell \in Cells :
            LET i == cell[1]
                c == cell[2]
                later == LaterValues(i, c)
            IN  sorted_df[i][c] = NaN =>
                    IF later = {} THEN data_df[i][c] = NaN
                    ELSE \E j \in later :
                            /\ \A k \in later : j <= k
                            /\ data_df[i][c] =
                                IF sorted_df[j][c] = <<Closed>> THEN NaN ELSE sorted_df[j][c]

\* A cell that was NaN is followed that day by a -999 and then by a wait, and
\* is NaN in the table the aggregation reads.
C4_Witness ==
    /\ pc = "serving"
    /\ NoRepeats
    /\ \E cell \in Cells :
        /\ sorted_df[cell[1]][cell[2]] = NaN
        /\ LaterWaits(cell[1], cell[2]) # {}
        /\ LaterWaits(cell[1], cell[2]) # LaterValues(cell[1], cell[2])
        /\ data_df[cell[1]][cell[2]] = NaN

\* ------------------------------------------------------------------- C5
\* Rows of a table on the day and month of date, whatever the year.
RowsOn(rows, date) ==
    LET OnDay(r) == r.datetime.month = date[2] /\ r.datetime.day = date[3]
    IN  SelectSeq(rows, OnDay)

HoursOf(rows) == {rows[i].datetime.hour : i \in 1..Len(rows)}

YearsOf(rows) == {rows[i].datetime.year : i \in 1..Len(rows)}

\* Indices of the rows at hour h (year y) whose column c holds a value.
ValuedAtHour(rows, c, h) ==
    {i \in 1..Len(rows) : rows[i].datetime.hour = h /\ rows[i][c] # NaN}

ValuedInYear(rows, c, y) ==
    {i \in 1..Len(rows) : rows[i].datetime.year = y /\ rows[i][c] # NaN}

RECURSIVE Total(_, _, _)
Total(rows, c, S) ==
    IF S = {} THEN 0
    ELSE LET i == CHOOSE j \in S : TRUE IN rows[i][c][1] + Total(rows, c, S \ {i})

\* m is the arithmetic mean of column c over the rows S, NaN when S is empty.
IsMeanOf(m, rows, c, S) ==
    IF S = {} THEN m = NaN
    ELSE m # NaN /\ m[1] * Cardinality(S) = Total(rows, c, S) * m[2]

\* The n-th smallest element of a set of integers.
Nth(S, n) == CHOOSE x \in S : Cardinality({y \in S : y < x}) = n - 1

SameDayAndMonth(d1, d2) == d1[2] = d2[2] /\ d1[3] = d2[3]

Points(trace) ==
    {<<trace.x[n], trace.y[n]>> : n \in {i \in 1..Len(trace.y) : trace.y[i] # NaN}}

\* C6 as stated: the hourly series of a ride has a point at hour h exactly
\* when a filtered row of hour h has a value for the ride, and the point's
\* value is the mean of those values.
C6_AsStated ==
    (Served /\ response.status = "ok") =>
        \A k \in 1..Len(response.line) :
            LET c == TraceColumn(k)
                line == response.line[k]
            IN  /\ Len(line.x) = Len(line.y)
                /\ \A pt \in Points(line) :
                    /\ ValuedAtHour(data, c, pt[1]) # {}
                    /\ IsMeanOf(pt[2], data, c, ValuedAtHour(data, c, pt[1]))
                /\ \A h \in HoursOf(data) :
                    ValuedAtHour(data, c, h) # {} => \E pt \in Points(line) : pt[1] = h

\* ------------------------------------------------------------------- C7
DateLess(a, b) ==
    \/ a[1] < b[1]
    \/ a[1] = b[1] /\ a[2] < b[2]
    \/ a[1] = b[1] /\ a[2] = b[2] /\ a[3] < b[3]

OutOfRange(date) == DateLess(date, min_date_allowed) \/ DateLess(max_date_allowed, date)

NoPoints(resp) ==
    /\ \A k \in 1..Len(resp.line) : resp.line[k].x = <<>> /\ resp.line[k].y = <<>>
    /\ \A k \in 1..Len(resp.bar) : resp.bar[k].x = <<>> /\ resp.bar[k].y = <<>>

UnknownRide(ride) == ride \notin {"All"} \cup Range(col)

\* C8 as stated: a request whose ride selector is neither "All" nor a ride
\* column returns two figures without data points and raises nothing.
C8_AsStated ==
    (Served /\ UnknownRide(request.ride)) =>
        /\ response.status = "ok"
        /\ NoPoints(response)

\* C8 amended: a request whose ride selector is neither "All" nor a ride
\* column raises an exception and returns no figure: KeyError when the
\* selector names no column of the table, ValueError otherwise.
C8_UnknownRideRaises ==
    (Served /\ UnknownRide(request.ride)) =>
        /\ DOMAIN response = {"status"}
        /\ response.status =
            IF request.ride \in {"datetime"} \cup IntColumns THEN "ValueError" ELSE "KeyError"

\* A request with a selector that names no column, for a day that has rows.
C8_Witness ==
    /\ Served
    /\ UnknownRide(request.ride)
    /\ request.ride \notin IntColumns
    /\ data # <<>>
    /\ response.status = "KeyError"

C10_AsStated ==
    (Served /\ response.status = "ok") =>
        \A k \in 1..Len(response.line) :
            LET c == TraceColumn(k)
                line == response.line[k]
            IN  /\ Len(line.x) = Len(line.y)
                /\ \A n \in 1..Len(line.y) :
                    IsMeanOf(line.y[n], data, c, ValuedAtHour(data, c, line.x[n]))
====
